---- MODULE Spec2Model ----
(***************************************************************************)
(* A model of nlp_profiler/core.py: the row-wise text profiler             *)
(* (apply_text_profiling), its score-to-label slab classifiers, its label  *)
(* summarisers and its pattern counters.                                   *)
(*                                                                         *)
(* Python values are tagged records (PyStr, PyFloat, PyInt, PyNone): a     *)
(* column or a return value may hold "N/A", a number or None as it does in *)
(* the program.  A float is kept as an exact fraction n/d (d > 0), so the  *)
(* slab comparisons are exact at the slab boundaries.                      *)
(* Texts and labels are TLA+ strings; SubSeq reads their characters.       *)
(***************************************************************************)
EXTENDS Integers, Sequences, FiniteSets, TLC

VARIABLES
    dataframe,      \* apply_text_profiling: the input text column, a sequence of texts
    params,         \* apply_text_profiling: default_params after update(params)
    new_dataframe,  \* apply_text_profiling: column name -> sequence of values
    pc,             \* apply_text_profiling: the source line about to be executed
    error,          \* the exception that left apply_text_profiling, "" when none
    metric,         \* a direct call of a classifier: which of the three metrics
    score,          \* a direct call of a classifier: its argument
    label,          \* the classifier's return value
    summary,        \* the summariser's return value on label
    resummary,      \* the summariser's return value on summary
    stage           \* how far the direct call chain has got

vars == <<dataframe, params, new_dataframe, pc, error,
          metric, score, label, summary, resummary, stage>>

(***************************************************************************)
(* Bounds of the model.                                                    *)
(***************************************************************************)
\* Grid points per percentage point of a score handed to a classifier.
Res == 2
\* How far (in grid points) the scores handed to a classifier leave their range.
Over == 4
\* Longest text of a one-row dataframe.
MaxLen == 3
\* Most rows of a dataframe, and the longest text in a many-row dataframe.
MaxRows == 2
MaxBatchLen == 1

(***************************************************************************)
(* Python values.                                                          *)
(***************************************************************************)
PyStr(s) == [py |-> "str", s |-> s, n |-> 0, d |-> 1]
PyFloat(n, d) == [py |-> "float", s |-> "", n |-> n, d |-> d]
PyInt(n) == [py |-> "int", s |-> "", n |-> n, d |-> 1]
PyNone == [py |-> "None", s |-> "", n |-> 0, d |-> 1]

NOT_APPLICABLE == "N/A"

\* score == NOT_APPLICABLE: a number never equals a str.
IsNotApplicable(value) == value.py = "str" /\ value.s = NOT_APPLICABLE

(***************************************************************************)
(* Strings.                                                                *)
(***************************************************************************)
CharAt(s, i) == SubSeq(s, i, i)

\* needle in hay
Contains(hay, needle) ==
    \E i \in 1..(Len(hay) - Len(needle) + 1) :
        SubSeq(hay, i, i + Len(needle) - 1) = needle

UpperCase == "ABCDEFGHIJKLMNOPQRSTUVWXYZ"
LowerCase == "abcdefghijklmnopqrstuvwxyz"

LowerChar(c) ==
    IF \E i \in 1..Len(UpperCase) : CharAt(UpperCase, i) = c
    THEN CharAt(LowerCase, CHOOSE i \in 1..Len(UpperCase) : CharAt(UpperCase, i) = c)
    ELSE c

RECURSIVE Lower(_)
\* str.lower()
Lower(s) == IF s = "" THEN "" ELSE LowerChar(CharAt(s, 1)) \o Lower(SubSeq(s, 2, Len(s)))

(***************************************************************************)
(* The slab tables and the classifiers.                                    *)
(***************************************************************************)
sentiment_polarity_to_words_mapping ==
    << <<"Very positive", 99, 100>>,
       <<"Quite positive", 87, 99>>,
       <<"Pretty positive", 51, 87>>,
       <<"Neutral", 49, 51>>,
       <<"Pretty negative", 12, 49>>,
       <<"Quite negative", 2, 12>>,
       <<"Very negative", 0, 2>> >>

sentiment_subjectivity_to_words_mapping ==
    << <<"Very subjective", 99, 100>>,
       <<"Quite subjective", 87, 99>>,
       <<"Pretty subjective", 63, 87>>,
       <<"Objective/subjective", 40, 63>>,
       <<"Pretty objective", 12, 40>>,
       <<"Quite objective", 2, 12>>,
       <<"Very objective", 0, 2>> >>

\* The spelling-quality table with "Good" starting at 88: a gap between 87 and 88.
spelling_quality_score_to_words_mapping_with_gap ==
    << <<"Very good", 99, 100>>,
       <<"Quite good", 90, 99>>,
       <<"Good", 88, 90>>,
       <<"Pretty good", 63, 87>>,
       <<"Bad", 40, 63>>,
       <<"Pretty bad", 12, 40>>,
       <<"Quite bad", 2, 12>>,
       <<"Very bad", 0, 2>> >>

spelling_quality_score_to_words_mapping ==
    << <<"Very good", 99, 100>>,
       <<"Quite good", 90, 99>>,
       <<"Good", 87, 90>>,
       <<"Pretty good", 63, 87>>,
       <<"Bad", 40, 63>>,
       <<"Pretty bad", 12, 40>>,
       <<"Quite bad", 2, 12>>,
       <<"Very bad", 0, 2>> >>

\* (score >= each_slab[1]) and (score <= each_slab[2]), score being n/d
InSlab(each_slab, n, d) == n >= each_slab[2] * d /\ n <= each_slab[3] * d

RECURSIVE ScanSlabsLastMatch(_, _, _, _)
\* The scan returning the last slab that holds the score instead of the first.
ScanSlabsLastMatch(mapping, i, n, d) ==
    IF i > Len(mapping) THEN PyNone
    ELSE LET rest == ScanSlabsLastMatch(mapping, i + 1, n, d)
         IN IF rest.py # "None" THEN rest
            ELSE IF InSlab(mapping[i], n, d) THEN PyStr(mapping[i][1]) ELSE PyNone

RECURSIVE ScanSlabs(_, _, _, _)
\* for each_slab in mapping: if ...: return each_slab[0]; falling off the loop
\* returns None
ScanSlabs(mapping, i, n, d) ==
    IF i > Len(mapping) THEN PyNone
    ELSE IF InSlab(mapping[i], n, d) THEN PyStr(mapping[i][1])
    ELSE ScanSlabs(mapping, i + 1, n, d)

sentiment_polarity(value) ==
    IF IsNotApplicable(value) THEN PyStr(NOT_APPLICABLE)
    ELSE \* (score + 1) / 2 * 100 = (n + d) * 100 / (2 * d)
         ScanSlabs(sentiment_polarity_to_words_mapping, 1,
                   (value.n + value.d) * 100, 2 * value.d)

sentiment_subjectivity(value) ==
    IF IsNotApplicable(value) THEN PyStr(NOT_APPLICABLE)
    ELSE ScanSlabs(sentiment_subjectivity_to_words_mapping, 1, value.n * 100, value.d)

spelling_quality(value) ==
    IF IsNotApplicable(value) THEN PyStr(NOT_APPLICABLE)
    ELSE ScanSlabs(spelling_quality_score_to_words_mapping, 1, value.n * 100, value.d)

(***************************************************************************)
(* The summarisers (called with a str).                                    *)
(***************************************************************************)
sentiment_polarity_summarised(polarity) ==
    IF Contains(Lower(polarity), "negative") THEN "Negative"
    ELSE IF Contains(Lower(polarity), "positive") THEN "Positive"
    ELSE polarity

\* sentiment_subjectivity_summarised without its .lower()
sentiment_subjectivity_summarised_case_sensitive(subjectivity) ==
    IF Contains(subjectivity, "/") THEN subjectivity
    ELSE IF Contains(subjectivity, "subjective") THEN "Subjective"
    ELSE "Objective"

sentiment_subjectivity_summarised(subjectivity) ==
    IF Contains(subjectivity, "/") THEN subjectivity
    ELSE IF Contains(Lower(subjectivity), "subjective") THEN "Subjective"
    ELSE "Objective"

spelling_quality_summarised(quality) ==
    IF Contains(Lower(quality), "good") THEN "Good" ELSE "Bad"

\* An exception leaving a function, carried as the function's outcome.
Raise(exception) == [py |-> "raise", s |-> exception, n |-> 0, d |-> 1]

(***************************************************************************)
(* Regular-expression matching, as re.findall scans: left to right, the    *)
(* next search starting where the last match ended (one further after an   *)
(* empty match).                                                           *)
(***************************************************************************)
Digits == "0123456789"
\* The characters str.strip() removes.
Whitespace == " \t\n\r\f"
\* The character class of gather_punctuations (its backquote cannot be written
\* in a TLA+ string and is left out; no modelled text holds one).
PunctuationClass == "!\"$%&'(" \o ")*+,-./:;=#@?[\\]^_{|}~"

IsDigit(c) == Contains(Digits, c)
IsAsciiLetter(c) == Contains(UpperCase, c) \/ Contains(LowerCase, c)
\* \w
IsWordChar(c) == IsAsciiLetter(c) \/ IsDigit(c) \/ c = "_"

InClass(class, c) ==
    CASE class = "[0-9]" -> IsDigit(c)
      [] class = "[A-Za-z0-9]" -> IsAsciiLetter(c) \/ IsDigit(c)
      [] class = "[^A-Za-z0-9]" -> ~(IsAsciiLetter(c) \/ IsDigit(c))
      [] class = "[^.]" -> c # "."
      [] class = "[^\\d\\W]" -> IsWordChar(c) /\ ~IsDigit(c)
      [] class = "[punctuation]" -> Contains(PunctuationClass, c)
      [] class = " " -> c = " "

RECURSIVE RunEnd(_, _, _)
\* Where the greedy run of class characters that starts at pos ends (the
\* position after its last character; pos itself when the run is empty).
RunEnd(text, pos, class) ==
    IF pos <= Len(text) /\ InClass(class, CharAt(text, pos))
    THEN RunEnd(text, pos + 1, class)
    ELSE pos

RECURSIVE FindAllChar(_, _, _)
\* re.findall of a single character class
FindAllChar(text, pos, class) ==
    IF pos > Len(text) THEN <<>>
    ELSE IF InClass(class, CharAt(text, pos))
         THEN <<CharAt(text, pos)>> \o FindAllChar(text, pos + 1, class)
         ELSE FindAllChar(text, pos + 1, class)

RECURSIVE FindAllPlus(_, _, _)
\* re.findall of class+
FindAllPlus(text, pos, class) ==
    IF pos > Len(text) THEN <<>>
    ELSE LET end == RunEnd(text, pos, class)
         IN IF end > pos
            THEN <<SubSeq(text, pos, end - 1)>> \o FindAllPlus(text, end, class)
            ELSE FindAllPlus(text, pos + 1, class)

RECURSIVE FindAllStar(_, _, _)
\* re.findall of class*: an empty match is a match, also at the end of the text
\* and right after a non-empty match.
FindAllStar(text, pos, class) ==
    IF pos > Len(text) + 1 THEN <<>>
    ELSE LET end == RunEnd(text, pos, class)
         IN <<SubSeq(text, pos, end - 1)>>
            \o FindAllStar(text, IF end > pos THEN end ELSE pos + 1, class)

\* \b between the characters pos - 1 and pos
IsBoundary(text, pos) ==
    LET before == pos > 1 /\ IsWordChar(CharAt(text, pos - 1))
        after == pos <= Len(text) /\ IsWordChar(CharAt(text, pos))
    IN before # after

(***************************************************************************)
(* The pattern counters.                                                   *)
(***************************************************************************)
RECURSIVE DeleteEmptyWhileIterating(_, _)
\* for index, each in enumerate(lines): if each == '': del lines[index]
\* The iterator's index advances after every element, also after a deletion
\* has moved the following elements one place down.
DeleteEmptyWhileIterating(lines, index) ==
    IF index > Len(lines) THEN lines
    ELSE IF lines[index] = ""
         THEN DeleteEmptyWhileIterating(
                  SubSeq(lines, 1, index - 1) \o SubSeq(lines, index + 1, Len(lines)),
                  index + 1)
         ELSE DeleteEmptyWhileIterating(lines, index + 1)

gather_sentences(text) ==
    DeleteEmptyWhileIterating(FindAllStar(text, 1, "[^.]"), 1)

count_sentences(text) == Len(gather_sentences(text))

count_spaces(text) == Len(FindAllChar(text, 1, " "))

count_characters_excluding_spaces(text) == Len(text) - count_spaces(text)

\* The match of \b[^\d\W]+ (no closing \b): the greedy run.
WordMatchEndWithoutClosingBoundary(text, pos) ==
    LET end == RunEnd(text, pos, "[^\\d\\W]")
    IN IF IsBoundary(text, pos) /\ end > pos THEN end ELSE 0

\* Where the match of \b[^\d\W]+\b that starts at pos ends, 0 when there is
\* none: the greedy run, given back character by character until \b holds.
WordMatchEnd(text, pos) ==
    LET end == RunEnd(text, pos, "[^\\d\\W]")
        ends == {k \in (pos + 1)..end : IsBoundary(text, k)}
    IN IF IsBoundary(text, pos) /\ ends # {}
       THEN CHOOSE k \in ends : \A other \in ends : other <= k
       ELSE 0

RECURSIVE FindAllWords(_, _)
FindAllWords(text, pos) ==
    IF pos > Len(text) THEN <<>>
    ELSE LET end == WordMatchEnd(text, pos)
         IN IF end > 0
            THEN <<SubSeq(text, pos, end - 1)>> \o FindAllWords(text, end)
            ELSE FindAllWords(text, pos + 1)

gather_words(text) == FindAllWords(text, 1)

words_count(text) == Len(gather_words(text))

gather_whole_numbers(text) == FindAllPlus(text, 1, "[0-9]")

count_whole_numbers(text) == Len(gather_whole_numbers(text))

\* re.findall('[A-Za-z0-9]+', text): runs instead of characters
gather_alpha_numeric_runs(text) == FindAllPlus(text, 1, "[A-Za-z0-9]")

gather_alpha_numeric(text) == FindAllChar(text, 1, "[A-Za-z0-9]")

count_alpha_numeric(text) == Len(gather_alpha_numeric(text))

gather_non_alpha_numeric(text) == FindAllChar(text, 1, "[^A-Za-z0-9]")

count_non_alpha_numeric(text) == Len(gather_non_alpha_numeric(text))

RECURSIVE Join(_)
\* "".join(line)
Join(line) == IF line = <<>> THEN "" ELSE Head(line) \o Join(Tail(line))

\* list("".join(re.findall(r'[...]*', text)))
gather_punctuations(text) ==
    LET joined == Join(FindAllStar(text, 1, "[punctuation]"))
    IN [i \in 1..Len(joined) |-> CharAt(joined, i)]

count_punctuations(text) == Len(gather_punctuations(text))

\* Where the lazy match of \:(.*?)\: that starts at pos ends (the position of
\* its closing colon), 0 when there is none; . matches no newline.
EmojiMatchEnd(text, pos) ==
    LET closes == {k \in (pos + 1)..Len(text) :
                      /\ CharAt(text, k) = ":"
                      /\ \A j \in (pos + 1)..(k - 1) : CharAt(text, j) # "\n"}
    IN IF CharAt(text, pos) = ":" /\ closes # {}
       THEN CHOOSE k \in closes : \A other \in closes : k <= other
       ELSE 0

RECURSIVE FindAllEmojis(_, _)
FindAllEmojis(text, pos) ==
    IF pos > Len(text) THEN <<>>
    ELSE LET close == EmojiMatchEnd(text, pos)
         IN IF close > 0
            THEN <<SubSeq(text, pos + 1, close - 1)>> \o FindAllEmojis(text, close + 1)
            ELSE FindAllEmojis(text, pos + 1)

\* emoji.demojize writes each emoji glyph as :name:; the modelled texts hold
\* no glyph, and it leaves them as they are.
demojize(text) == text

gather_emojis(text) == FindAllEmojis(demojize(text), 1)

count_emojis(text) == Len(gather_emojis(text))

\* 3[01]|[12][0-9]|0[1-9]
IsDay(s) ==
    LET a == CharAt(s, 1)
        b == CharAt(s, 2)
    IN \/ a = "3" /\ Contains("01", b)
       \/ Contains("12", a) /\ IsDigit(b)
       \/ a = "0" /\ Contains("123456789", b)

\* 1[0-2]|0[1-9]
IsMonth(s) ==
    LET a == CharAt(s, 1)
        b == CharAt(s, 2)
    IN \/ a = "1" /\ Contains("012", b)
       \/ a = "0" /\ Contains("123456789", b)

\* \b(dd)/(mm)/([0-9]{4})\b at pos
IsDateAt(text, pos) ==
    /\ pos + 9 <= Len(text)
    /\ IsBoundary(text, pos)
    /\ IsDay(SubSeq(text, pos, pos + 1))
    /\ CharAt(text, pos + 2) = "/"
    /\ IsMonth(SubSeq(text, pos + 3, pos + 4))
    /\ CharAt(text, pos + 5) = "/"
    /\ \A k \in (pos + 6)..(pos + 9) : IsDigit(CharAt(text, k))
    /\ IsBoundary(text, pos + 10)

RECURSIVE FindAllDates(_, _)
FindAllDates(text, pos) ==
    IF pos > Len(text) THEN <<>>
    ELSE IF IsDateAt(text, pos)
         THEN << <<SubSeq(text, pos, pos + 1), SubSeq(text, pos + 3, pos + 4),
                   SubSeq(text, pos + 6, pos + 9)>> >>
              \o FindAllDates(text, pos + 10)
         ELSE FindAllDates(text, pos + 1)

\* gather_dates(text) with its default date_format, 'dd/mm/yyyy'
gather_dates(text) == FindAllDates(text, 1)

count_dates(text) == Len(gather_dates(text))

(***************************************************************************)
(* The external collaborators: the tokenizer, the stop words, and (as      *)
(* inputs of the actions below) the sentiment analyser, the spellchecker   *)
(* and the grammar checker.                                                *)
(***************************************************************************)
\* Characters word_tokenize turns into tokens of their own.
SeparatedPunctuation == "!?;@#$%&()[]{}<>"

Flush(current) == IF current = "" THEN <<>> ELSE <<current>>

\* A period that ends the text (only whitespace follows) after a character that
\* is no period: word_tokenize splits it off.
IsFinalPeriod(text, pos) ==
    /\ CharAt(text, pos) = "."
    /\ pos > 1
    /\ CharAt(text, pos - 1) # "."
    /\ \A k \in (pos + 1)..Len(text) : Contains(Whitespace, CharAt(text, k))

RECURSIVE Tokenize(_, _, _)
Tokenize(text, pos, current) ==
    IF pos > Len(text) THEN Flush(current)
    ELSE LET c == CharAt(text, pos)
         IN IF Contains(Whitespace, c)
            THEN Flush(current) \o Tokenize(text, pos + 1, "")
            ELSE IF Contains(SeparatedPunctuation, c) \/ IsFinalPeriod(text, pos)
                 THEN Flush(current) \o <<c>> \o Tokenize(text, pos + 1, "")
                 ELSE Tokenize(text, pos + 1, current \o c)

\* nltk's word_tokenize on the modelled alphabet: whitespace separates tokens,
\* ! and the like are tokens of their own, and so is the text's final period.
word_tokenize(text) == Tokenize(text, 1, "")

\* Those of nltk's English stop words the modelled alphabet can spell.
STOP_WORDS == {"a", "i", "s", "t", "d", "m", "o", "y", "an", "as", "at", "am"}

\* What TextBlob(text).sentiment.polarity and .subjectivity may return.
PolarityOutputs == {PyFloat(0 - 1, 1), PyFloat(0, 1), PyFloat(1, 1)}
SubjectivityOutputs == {PyFloat(0, 1), PyFloat(1, 1)}
\* What len(tool.check(text)) may return.
GrammarOutputs == {PyInt(0), PyInt(1), PyInt(2)}

(***************************************************************************)
(* The score functions.                                                    *)
(***************************************************************************)
RECURSIVE LStrip(_)
LStrip(text) ==
    IF text # "" /\ Contains(Whitespace, CharAt(text, 1))
    THEN LStrip(SubSeq(text, 2, Len(text)))
    ELSE text

RECURSIVE RStrip(_)
RStrip(text) ==
    IF text # "" /\ Contains(Whitespace, CharAt(text, Len(text)))
    THEN RStrip(SubSeq(text, 1, Len(text) - 1))
    ELSE text

\* text.strip()
Strip(text) == RStrip(LStrip(text))

\* (not text) or (len(text.strip()) == 0)
IsBlank(text) == text = "" \/ Len(Strip(text)) = 0

\* polarity is what TextBlob returns for the text
sentiment_polarity_score(text, polarity) ==
    IF IsBlank(text) THEN PyStr(NOT_APPLICABLE) ELSE polarity

sentiment_subjectivity_score(text, subjectivity) ==
    IF IsBlank(text) THEN PyStr(NOT_APPLICABLE) ELSE subjectivity

\* string.punctuation, in the two parts its backquote separates (a backquote
\* cannot be written in a TLA+ string).
string_punctuation_1 == "!\"#$%&'(" \o ")*+,-./:;<=>?@[\\]^_"
string_punctuation_2 == "{|}~"

\* each_word in string.punctuation: a substring test. A word without a
\* backquote is a substring of the whole iff it is one of a part.
InStringPunctuation(each_word) ==
    Contains(string_punctuation_1, each_word) \/ Contains(string_punctuation_2, each_word)

\* The number of tokens handed to the spellchecker.
total_words_checks(text) ==
    Len(SelectSeq(word_tokenize(Lower(text)), LAMBDA each_word : ~InStringPunctuation(each_word)))

\* misspelt_words_count is the number of those words the spellchecker scores
\* below 1. avg_words_per_sentence is total / num_of_sentences, and result is
\* (avg - misspelt) / avg = (total - misspelt * num_of_sentences) / total.
spelling_quality_score(text, misspelt_words_count) ==
    IF IsBlank(text) THEN PyStr(NOT_APPLICABLE)
    ELSE LET total == total_words_checks(text)
             num_of_sentences == count_sentences(text)
         IN IF num_of_sentences = 0 THEN Raise("ZeroDivisionError")
            ELSE IF total = 0 THEN Raise("ZeroDivisionError")
            ELSE IF total - misspelt_words_count * num_of_sentences >= 0
                 THEN PyFloat(total - misspelt_words_count * num_of_sentences, total)
                 ELSE PyInt(0)

grammar_quality(value) ==
    IF value.n = 1 THEN "1 issue"
    ELSE IF value.n > 1 THEN ToString(value.n) \o " issues"
    ELSE "No issues"

gather_stop_words(text) ==
    SelectSeq(word_tokenize(text), LAMBDA word : word \in STOP_WORDS)

count_stop_words(text) == Len(gather_stop_words(text))

\* sorted() and groupby() bring equal tokens together; the dict maps every
\* token that occurs more than once to its frequency.
gather_duplicates(text) ==
    LET tokenized_text == word_tokenize(Lower(text))
        frequency(value) ==
            Cardinality({i \in 1..Len(tokenized_text) : tokenized_text[i] = value})
    IN [value \in {tokenized_text[i] : i \in {j \in 1..Len(tokenized_text) :
                                                  frequency(tokenized_text[j]) > 1}}
           |-> frequency(value)]

count_duplicates(text) == Cardinality(DOMAIN gather_duplicates(text))

(***************************************************************************)
(* apply_text_profiling: one action per column statement. A column is      *)
(* computed row by row (Series.apply) and assigned whole; an exception in  *)
(* any row leaves apply_text_profiling before the column is assigned and   *)
(* before anything is returned.                                            *)
(***************************************************************************)
text_column == "text"

Rows == 1..Len(dataframe)

WithColumn(frame, column, values) ==
    [c \in DOMAIN frame \cup {column} |-> IF c = column THEN values ELSE frame[c]]

\* No row holds more tokens than the longest text has characters.
LongestText ==
    IF Rows = {} THEN 0
    ELSE CHOOSE n \in {Len(dataframe[r]) : r \in Rows} : \A r \in Rows : Len(dataframe[r]) <= n

\* new_dataframe[column] = values, unless computing a value raised
AssignColumn(next, column, values) ==
    /\ IF \E r \in Rows : values[r].py = "raise"
       THEN LET first == CHOOSE r \in Rows :
                             /\ values[r].py = "raise"
                             /\ \A q \in 1..(r - 1) : values[q].py # "raise"
            IN /\ pc' = "raised"
               /\ error' = values[first].s
               /\ UNCHANGED new_dataframe
       ELSE /\ pc' = next
            /\ new_dataframe' = WithColumn(new_dataframe, column, values)
            /\ UNCHANGED error
    /\ UNCHANGED <<dataframe, params, metric, score, label, summary, resummary, stage>>

\* an if of apply_text_profiling whose condition is false
SkipBlock(flag, next) ==
    /\ ~params[flag]
    /\ pc' = next
    /\ UNCHANGED <<dataframe, params, new_dataframe, error,
                   metric, score, label, summary, resummary, stage>>

\* a summariser on a label: a str method on None raises
Summarised(value, result, exception) ==
    IF value.py = "str" THEN PyStr(result) ELSE Raise(exception)

\* a column of counts of the text column
Counts(count) == [r \in Rows |-> PyInt(count[r])]

SkipHighLevel ==
    /\ pc = "if_high_level"
    /\ SkipBlock("high_level", "if_grammar_check")

SentimentPolarityScore ==
    /\ pc = "if_high_level"
    /\ params.high_level
    /\ \E polarity \in [Rows -> PolarityOutputs] :
           AssignColumn("sentiment_polarity", "sentiment_polarity_score",
               [r \in Rows |-> sentiment_polarity_score(dataframe[r], polarity[r])])

SentimentPolarity ==
    /\ pc = "sentiment_polarity"
    /\ AssignColumn("sentiment_polarity_summarised", "sentiment_polarity",
           [r \in Rows |-> sentiment_polarity(new_dataframe["sentiment_polarity_score"][r])])

SentimentPolaritySummarised ==
    /\ pc = "sentiment_polarity_summarised"
    /\ AssignColumn("sentiment_subjectivity_score", "sentiment_polarity_summarised",
           [r \in Rows |->
               LET value == new_dataframe["sentiment_polarity"][r]
               IN Summarised(value, sentiment_polarity_summarised(value.s),
                             "AttributeError")])

SentimentSubjectivityScore ==
    /\ pc = "sentiment_subjectivity_score"
    /\ \E subjectivity \in [Rows -> SubjectivityOutputs] :
           AssignColumn("sentiment_subjectivity", "sentiment_subjectivity_score",
               [r \in Rows |-> sentiment_subjectivity_score(dataframe[r], subjectivity[r])])

SentimentSubjectivity ==
    /\ pc = "sentiment_subjectivity"
    /\ AssignColumn("sentiment_subjectivity_summarised", "sentiment_subjectivity",
           [r \in Rows |->
               sentiment_subjectivity(new_dataframe["sentiment_subjectivity_score"][r])])

SentimentSubjectivitySummarised ==
    /\ pc = "sentiment_subjectivity_summarised"
    /\ AssignColumn("spelling_quality_score", "sentiment_subjectivity_summarised",
           [r \in Rows |->
               LET value == new_dataframe["sentiment_subjectivity"][r]
               IN Summarised(value, sentiment_subjectivity_summarised(value.s),
                             "TypeError")])

\* misspelt[r] is the number of row r's words the spellchecker scores below 1
SpellingQualityScore ==
    /\ pc = "spelling_quality_score"
    /\ \E misspelt \in [Rows -> 0..LongestText] :
           /\ \A r \in Rows : misspelt[r] <= total_words_checks(dataframe[r])
           /\ AssignColumn("spelling_quality", "spelling_quality_score",
                  [r \in Rows |-> spelling_quality_score(dataframe[r], misspelt[r])])

SpellingQuality ==
    /\ pc = "spelling_quality"
    /\ AssignColumn("spelling_quality_summarised", "spelling_quality",
           [r \in Rows |-> spelling_quality(new_dataframe["spelling_quality_score"][r])])

SpellingQualitySummarised ==
    /\ pc = "spelling_quality_summarised"
    /\ AssignColumn("if_grammar_check", "spelling_quality_summarised",
           [r \in Rows |->
               LET value == new_dataframe["spelling_quality"][r]
               IN Summarised(value, spelling_quality_summarised(value.s),
                             "AttributeError")])

SkipGrammarCheck ==
    /\ pc = "if_grammar_check"
    /\ SkipBlock("grammar_check", "if_granular")

\* issues[r] is what the grammar checker counts in row r
GrammarCheckScore ==
    /\ pc = "if_grammar_check"
    /\ params.grammar_check
    /\ \E issues \in [Rows -> GrammarOutputs] :
           AssignColumn("grammar_check", "grammar_check_score", issues)

GrammarCheck ==
    /\ pc = "grammar_check"
    /\ AssignColumn("if_granular", "grammar_check",
           [r \in Rows |-> PyStr(grammar_quality(new_dataframe["grammar_check_score"][r]))])

SkipGranular ==
    /\ pc = "if_granular"
    /\ SkipBlock("granular", "return")

SentencesCount ==
    /\ pc = "if_granular"
    /\ params.granular
    /\ AssignColumn("characters_count", "sentences_count",
           Counts([r \in Rows |-> count_sentences(dataframe[r])]))

CharactersCount ==
    /\ pc = "characters_count"
    /\ AssignColumn("spaces_count", "characters_count",
           Counts([r \in Rows |-> Len(dataframe[r])]))

SpacesCount ==
    /\ pc = "spaces_count"
    /\ AssignColumn("words_count", "spaces_count",
           Counts([r \in Rows |-> count_spaces(dataframe[r])]))

WordsCount ==
    /\ pc = "words_count"
    /\ AssignColumn("duplicates_count", "words_count",
           Counts([r \in Rows |-> words_count(dataframe[r])]))

DuplicatesCount ==
    /\ pc = "duplicates_count"
    /\ AssignColumn("chars_excl_spaces_count", "duplicates_count",
           Counts([r \in Rows |-> count_duplicates(dataframe[r])]))

CharsExclSpacesCount ==
    /\ pc = "chars_excl_spaces_count"
    /\ AssignColumn("emoji_count", "chars_excl_spaces_count",
           Counts([r \in Rows |-> count_characters_excluding_spaces(dataframe[r])]))

EmojiCount ==
    /\ pc = "emoji_count"
    /\ AssignColumn("whole_numbers_count", "emoji_count",
           Counts([r \in Rows |-> count_emojis(dataframe[r])]))

WholeNumbersCount ==
    /\ pc = "whole_numbers_count"
    /\ AssignColumn("alpha_numeric_count", "whole_numbers_count",
           Counts([r \in Rows |-> count_whole_numbers(dataframe[r])]))

AlphaNumericCount ==
    /\ pc = "alpha_numeric_count"
    /\ AssignColumn("non_alpha_numeric_count", "alpha_numeric_count",
           Counts([r \in Rows |-> count_alpha_numeric(dataframe[r])]))

NonAlphaNumericCount ==
    /\ pc = "non_alpha_numeric_count"
    /\ AssignColumn("punctuations_count", "non_alpha_numeric_count",
           Counts([r \in Rows |-> count_non_alpha_numeric(dataframe[r])]))

PunctuationsCount ==
    /\ pc = "punctuations_count"
    /\ AssignColumn("stop_words_count", "punctuations_count",
           Counts([r \in Rows |-> count_punctuations(dataframe[r])]))

StopWordsCount ==
    /\ pc = "stop_words_count"
    /\ AssignColumn("dates_count", "stop_words_count",
           Counts([r \in Rows |-> count_stop_words(dataframe[r])]))

DatesCount ==
    /\ pc = "dates_count"
    /\ AssignColumn("return", "dates_count",
           Counts([r \in Rows |-> count_dates(dataframe[r])]))

\* return new_dataframe
Return ==
    /\ pc = "return"
    /\ pc' = "done"
    /\ UNCHANGED <<dataframe, params, new_dataframe, error,
                   metric, score, label, summary, resummary, stage>>

HighLevelStep ==
    \/ SkipHighLevel
    \/ SentimentPolarityScore
    \/ SentimentPolarity
    \/ SentimentPolaritySummarised
    \/ SentimentSubjectivityScore
    \/ SentimentSubjectivity
    \/ SentimentSubjectivitySummarised
    \/ SpellingQualityScore
    \/ SpellingQuality
    \/ SpellingQualitySummarised

GrammarStep ==
    \/ SkipGrammarCheck
    \/ GrammarCheckScore
    \/ GrammarCheck

GranularStep ==
    \/ SkipGranular
    \/ SentencesCount
    \/ CharactersCount
    \/ SpacesCount
    \/ WordsCount
    \/ DuplicatesCount
    \/ CharsExclSpacesCount
    \/ EmojiCount
    \/ WholeNumbersCount
    \/ AlphaNumericCount
    \/ NonAlphaNumericCount
    \/ PunctuationsCount
    \/ StopWordsCount
    \/ DatesCount
    \/ Return

(***************************************************************************)
(* Direct calls of the classifiers and the summarisers: a score is         *)
(* classified, the label summarised, and the summary summarised again.     *)
(***************************************************************************)
\* result is the classifier's return value on score
CallClassifier(result) ==
    /\ stage = "input"
    /\ label' = result
    /\ stage' = "classified"
    /\ UNCHANGED <<metric, score, summary, resummary, dataframe, params, new_dataframe, pc, error>>

\* result is the summariser's return value on label, a str; a summariser
\* handed None raises (a str method or operator on None).
CallSummariser(result) ==
    /\ stage = "classified"
    /\ IF label.py = "str"
       THEN summary' = PyStr(result) /\ stage' = "summarised"
       ELSE summary' = summary /\ stage' = "raised"
    /\ UNCHANGED <<metric, score, label, resummary, dataframe, params, new_dataframe, pc, error>>

\* result is the summariser's return value on summary
CallSummariserAgain(result) ==
    /\ stage = "summarised"
    /\ resummary' = PyStr(result)
    /\ stage' = "resummarised"
    /\ UNCHANGED <<metric, score, label, summary, dataframe, params, new_dataframe, pc, error>>

CallSentimentPolarity ==
    /\ metric = "polarity"
    /\ CallClassifier(sentiment_polarity(score))

CallSentimentSubjectivity ==
    /\ metric = "subjectivity"
    /\ CallClassifier(sentiment_subjectivity(score))

CallSpellingQuality ==
    /\ metric = "spelling"
    /\ CallClassifier(spelling_quality(score))

CallSentimentPolaritySummarised ==
    /\ metric = "polarity"
    /\ CallSummariser(sentiment_polarity_summarised(label.s))

CallSentimentSubjectivitySummarised ==
    /\ metric = "subjectivity"
    /\ CallSummariser(sentiment_subjectivity_summarised(label.s))

CallSpellingQualitySummarised ==
    /\ metric = "spelling"
    /\ CallSummariser(spelling_quality_summarised(label.s))

RecallSentimentPolaritySummarised ==
    /\ metric = "polarity"
    /\ CallSummariserAgain(sentiment_polarity_summarised(summary.s))

RecallSentimentSubjectivitySummarised ==
    /\ metric = "subjectivity"
    /\ CallSummariserAgain(sentiment_subjectivity_summarised(summary.s))

RecallSpellingQualitySummarised ==
    /\ metric = "spelling"
    /\ CallSummariserAgain(spelling_quality_summarised(summary.s))

(***************************************************************************)
(* Inputs.                                                                 *)
(***************************************************************************)
RECURSIVE TextsUpTo(_, _)
\* Every text of at most n characters of chars.
TextsUpTo(chars, n) ==
    IF n = 0 THEN {""}
    ELSE LET shorter == TextsUpTo(chars, n - 1)
         IN shorter \cup {t \o c : t \in shorter, c \in chars}

\* A letter, a digit, the underscore, the period, a space, punctuation, a newline.
TextChars == {"a", "1", "_", ".", " ", "!", "\n"}
BatchChars == {"a", ".", " ", "!"}

Metrics == {"polarity", "subjectivity", "spelling"}

\* Scores are multiples of 1 / Den.
Den == 100 * Res

ScoreInputs ==
    {PyStr(NOT_APPLICABLE), PyInt(0), PyInt(1)}
        \cup {PyFloat(k, Den) : k \in (0 - Den - Over)..(Den + Over)}

IdleCall ==
    /\ metric = "none"
    /\ score = PyNone
    /\ label = PyNone
    /\ summary = PyNone
    /\ resummary = PyNone
    /\ stage = "idle"

\* apply_text_profiling(dataframe, text_column, params), after lines 42 to 53
Entered ==
    /\ new_dataframe = [c \in {text_column} |-> [r \in Rows |-> PyStr(dataframe[r])]]
    /\ pc = "if_high_level"
    /\ error = ""

\* A dataframe of a few short texts, any parameters.
Init ==
    /\ dataframe \in UNION {[1..n -> TextsUpTo(BatchChars, MaxBatchLen)] : n \in 0..MaxRows}
    /\ params \in [high_level : BOOLEAN, granular : BOOLEAN, grammar_check : BOOLEAN]
    /\ Entered
    /\ IdleCall

\* A dataframe of one longer text, the granular counts alone.
InitGranular ==
    /\ dataframe \in {<<text>> : text \in TextsUpTo(TextChars, MaxLen)}
    /\ params = [high_level |-> FALSE, granular |-> TRUE, grammar_check |-> FALSE]
    /\ Entered
    /\ IdleCall

\* A direct call of a classifier.
InitCall ==
    /\ dataframe = <<>>
    /\ params = [high_level |-> FALSE, granular |-> FALSE, grammar_check |-> FALSE]
    /\ new_dataframe = [c \in {text_column} |-> <<>>]
    /\ pc = "idle"
    /\ error = ""
    /\ metric \in Metrics
    /\ score \in ScoreInputs
    /\ label = PyNone
    /\ summary = PyNone
    /\ resummary = PyNone
    /\ stage = "input"

Next ==
    \/ HighLevelStep
    \/ GrammarStep
    \/ GranularStep

NextGranular ==
    \/ SkipHighLevel
    \/ SkipGrammarCheck
    \/ SentencesCount
    \/ CharactersCount
    \/ SpacesCount
    \/ WordsCount
    \/ DuplicatesCount
    \/ CharsExclSpacesCount
    \/ EmojiCount
    \/ WholeNumbersCount
    \/ AlphaNumericCount
    \/ NonAlphaNumericCount
    \/ PunctuationsCount
    \/ StopWordsCount
    \/ DatesCount
    \/ Return

NextCall ==
    \/ CallSentimentPolarity
    \/ CallSentimentSubjectivity
    \/ CallSpellingQuality
    \/ CallSentimentPolaritySummarised
    \/ CallSentimentSubjectivitySummarised
    \/ CallSpellingQualitySummarised
    \/ RecallSentimentPolaritySummarised
    \/ RecallSentimentSubjectivitySummarised
    \/ RecallSpellingQualitySummarised

Spec == Init /\ [][Next]_vars

SpecGranular == InitGranular /\ [][NextGranular]_vars

SpecCall == InitCall /\ [][NextCall]_vars

(***************************************************************************)
(* Properties of the classifiers and the summarisers (SpecCall).           *)
(***************************************************************************)
Numeric(value) == value.py \in {"float", "int"}

TableOf(which) ==
    CASE which = "polarity" -> sentiment_polarity_to_words_mapping
      [] which = "subjectivity" -> sentiment_subjectivity_to_words_mapping
      [] which = "spelling" -> spelling_quality_score_to_words_mapping

\* The normalised score as a fraction NormalizedN / NormalizedD:
\* (score + 1) / 2 * 100 for polarity, score * 100 for the other two.
NormalizedN(which, value) ==
    IF which = "polarity" THEN (value.n + value.d) * 100 ELSE value.n * 100

NormalizedD(which, value) == IF which = "polarity" THEN 2 * value.d ELSE value.d

\* lower <= n / d <= upper
Covers(slab, n, d) == slab[2] * d <= n /\ n <= slab[3] * d

Classified == stage \in {"classified", "summarised", "resummarised", "raised"}

InRange(which, value) ==
    /\ 0 <= NormalizedN(which, value)
    /\ NormalizedN(which, value) <= 100 * NormalizedD(which, value)

\* C1: a score whose normalised value lies in [0, 100] is given a label (never
\* None), and the label is one of the metric's own table whose inclusive
\* [lower, upper] range holds the normalised value: no table has a gap.
C1_InRangeScoreGetsContainingLabel ==
    (Classified /\ Numeric(score) /\ InRange(metric, score)) =>
        /\ label.py = "str"
        /\ \E i \in 1..Len(TableOf(metric)) :
               /\ TableOf(metric)[i][1] = label.s
               /\ Covers(TableOf(metric)[i], NormalizedN(metric, score),
                         NormalizedD(metric, score))

\* A spelling-quality score strictly between 87 and 88 percent has been classified.
C1_Witness ==
    /\ stage = "classified"
    /\ metric = "spelling"
    /\ Numeric(score)
    /\ 87 * NormalizedD(metric, score) < NormalizedN(metric, score)
    /\ NormalizedN(metric, score) < 88 * NormalizedD(metric, score)
    /\ label = PyStr("Good")

PolarityBoundaryLabels ==
    { <<99, "Very positive">>, <<87, "Quite positive">>, <<51, "Pretty positive">>,
      <<49, "Neutral">>, <<12, "Pretty negative">>, <<2, "Quite negative">> }

\* C2: a normalised score on a boundary shared by two slabs gets the label of
\* the slab listed first; polarity 99, 87, 51, 49, 12 and 2 get the labels the
\* claim lists; and sentiment_polarity(1.0), (-1.0) and (0.0) are "Very
\* positive", "Very negative" and "Neutral".
C2_SharedBoundaryGetsFirstListedSlab ==
    (Classified /\ Numeric(score)) =>
        LET table == TableOf(metric)
            n == NormalizedN(metric, score)
            d == NormalizedD(metric, score)
        IN /\ \A i, j \in 1..Len(table) :
                  (i < j /\ Covers(table[i], n, d) /\ Covers(table[j], n, d))
                      => label = PyStr(table[i][1])
           /\ \A b \in PolarityBoundaryLabels :
                  (metric = "polarity" /\ n = b[1] * d) => label = PyStr(b[2])
           /\ (metric = "polarity" /\ score.n = score.d) => label = PyStr("Very positive")
           /\ (metric = "polarity" /\ score.n = 0 - score.d) => label = PyStr("Very negative")
           /\ (metric = "polarity" /\ score.n = 0) => label = PyStr("Neutral")

\* A polarity score normalised to exactly 87 has been classified.
C2_Witness ==
    /\ stage = "classified"
    /\ metric = "polarity"
    /\ score.py = "float"
    /\ NormalizedN(metric, score) = 87 * NormalizedD(metric, score)
    /\ label = PyStr("Quite positive")

\* C4: a numeric score whose normalised value lies below 0 or above 100 makes the
\* classifier signal an error instead of returning an absent value.
C4_OutOfRangeScoreSignalsError ==
    (Classified /\ Numeric(score) /\ ~InRange(metric, score)) => label.py = "raise"

TableLabels(which) == {TableOf(which)[i][1] : i \in 1..Len(TableOf(which))}

\* C10: on every label of its table a summariser is idempotent, so that
\* "Positive", "Negative", "Good", "Bad", "Objective" and "Subjective" map to
\* themselves, and "Objective/subjective" and "Neutral" are returned unchanged.
C10_SummariserIdempotent ==
    (label.py = "str" /\ label.s \in TableLabels(metric)) =>
        /\ stage = "resummarised" => resummary = summary
        /\ (stage \in {"summarised", "resummarised"}
              /\ label.s \in {"Objective/subjective", "Neutral"}) => summary = label
        /\ stage \in {"summarised", "resummarised"} =>
              summary.s \in {"Positive", "Negative", "Neutral", "Good", "Bad",
                             "Objective", "Subjective", "Objective/subjective"}

\* "Pretty subjective" has been summarised to "Subjective", and that again.
C10_Witness ==
    /\ stage = "resummarised"
    /\ metric = "subjectivity"
    /\ label = PyStr("Pretty subjective")
    /\ summary = PyStr("Subjective")
    /\ resummary = PyStr("Subjective")

(***************************************************************************)
(* Properties of apply_text_profiling on a batch (Spec).                   *)
(***************************************************************************)
HighLevelColumns ==
    {"sentiment_polarity_score", "sentiment_polarity", "sentiment_polarity_summarised",
     "sentiment_subjectivity_score", "sentiment_subjectivity",
     "sentiment_subjectivity_summarised",
     "spelling_quality_score", "spelling_quality", "spelling_quality_summarised"}

GrammarColumns == {"grammar_check_score", "grammar_check"}

GranularColumns ==
    {"sentences_count", "characters_count", "spaces_count", "words_count",
     "duplicates_count", "chars_excl_spaces_count", "emoji_count", "whole_numbers_count",
     "alpha_numeric_count", "non_alpha_numeric_count", "punctuations_count",
     "stop_words_count", "dates_count"}

SelectedColumns ==
    (IF params.high_level THEN HighLevelColumns ELSE {})
        \cup (IF params.grammar_check THEN GrammarColumns ELSE {})
        \cup (IF params.granular THEN GranularColumns ELSE {})

Computed(column) == column \in DOMAIN new_dataframe

\* C3: for an empty or whitespace-only text every score, label and summary
\* column of the three metrics holds NOT_APPLICABLE.
C3_NotApplicablePropagates ==
    \A r \in Rows :
        IsBlank(dataframe[r]) =>
            \A column \in HighLevelColumns :
                Computed(column) => new_dataframe[column][r] = PyStr(NOT_APPLICABLE)

\* No token of the text is spell-checked: every token is punctuation.
NothingToSpellCheck(text) == ~IsBlank(text) /\ total_words_checks(text) = 0

\* C5: spelling_quality_score never raises a division by zero; for a text none
\* of whose tokens is spell-checked it returns NOT_APPLICABLE or 0.
C5_NoDivisionByZero ==
    /\ error # "ZeroDivisionError"
    /\ Computed("spelling_quality_score") =>
           \A r \in Rows :
               NothingToSpellCheck(dataframe[r]) =>
                   \/ new_dataframe["spelling_quality_score"][r] = PyStr(NOT_APPLICABLE)
                   \/ /\ Numeric(new_dataframe["spelling_quality_score"][r])
                      /\ new_dataframe["spelling_quality_score"][r].n = 0

\* Computing a selected metric of the row raises.
RowFails(r) == params.high_level /\ NothingToSpellCheck(dataframe[r])

\* C6: when apply_text_profiling has ended, every row that does not itself
\* fail has all the selected metric columns, whatever the other rows did.
C6_RowFailureIsIsolated ==
    pc \in {"done", "raised"} =>
        \A r \in Rows :
            ~RowFails(r) =>
                \A column \in SelectedColumns :
                    Computed(column) /\ r \in DOMAIN new_dataframe[column]

(***************************************************************************)
(* Properties of the pattern counters (SpecGranular).                      *)
(***************************************************************************)
\* The maximal runs of Good characters of text, each as <<first, last>>.
RunsOf(text, Good(_)) ==
    {run \in (1..Len(text)) \X (1..Len(text)) :
        /\ run[1] <= run[2]
        /\ \A k \in run[1]..run[2] : Good(CharAt(text, k))
        /\ run[1] = 1 \/ ~Good(CharAt(text, run[1] - 1))
        /\ run[2] = Len(text) \/ ~Good(CharAt(text, run[2] + 1))}

\* The runs in text order, each as its text.
InTextOrder(text, runs) ==
    LET order == CHOOSE f \in [1..Cardinality(runs) -> runs] :
                     \A i, j \in 1..Cardinality(runs) : i < j => f[i][1] < f[j][1]
    IN [k \in 1..Cardinality(runs) |-> SubSeq(text, order[k][1], order[k][2])]

NotAPeriod(c) == c # "."

\* C7: gather_sentences returns the maximal non-empty runs of characters other
\* than '.', in text order, none of them empty, and count_sentences is their
\* number.
C7_SentencesAreTheNonEmptyRuns ==
    Computed("sentences_count") =>
        \A r \in Rows :
            LET text == dataframe[r]
                runs == RunsOf(text, NotAPeriod)
            IN /\ gather_sentences(text) = InTextOrder(text, runs)
               /\ \A i \in 1..Len(gather_sentences(text)) : gather_sentences(text)[i] # ""
               /\ new_dataframe["sentences_count"][r] = PyInt(Cardinality(runs))

NonDigitWordChar(c) == (c = "_" \/ Contains(UpperCase, c) \/ Contains(LowerCase, c))

WordChar(c) == NonDigitWordChar(c) \/ Contains(Digits, c)

\* C8 as stated: words_count is the number of maximal runs of non-digit word
\* characters, so that "abc123" counts through its alphabetic run.
C8_WordsAreNonDigitRuns ==
    Computed("words_count") =>
        \A r \in Rows :
            new_dataframe["words_count"][r] =
                PyInt(Cardinality(RunsOf(dataframe[r], NonDigitWordChar)))

\* C8 as amended: words_count is the number of maximal runs of word characters
\* (letters, digits, underscore) that hold no digit; a run that holds a digit,
\* such as "abc123", counts nothing.
C8_WordsAreDigitFreeTokens ==
    Computed("words_count") =>
        \A r \in Rows :
            LET text == dataframe[r]
                tokens == {run \in RunsOf(text, WordChar) :
                              \A k \in run[1]..run[2] : ~Contains(Digits, CharAt(text, k))}
            IN /\ new_dataframe["words_count"][r] = PyInt(Cardinality(tokens))
               /\ gather_words(text) = InTextOrder(text, tokens)

\* The words of "a1 " have been counted: there is none.
C8_Witness ==
    /\ Computed("words_count")
    /\ dataframe = <<"a1 ">>
    /\ new_dataframe["words_count"][1] = PyInt(0)

\* C9: count_alpha_numeric(t) + count_non_alpha_numeric(t) = len(t)
C9_CharacterCountersPartition ==
    (Computed("alpha_numeric_count") /\ Computed("non_alpha_numeric_count")
        /\ Computed("characters_count")) =>
        \A r \in Rows :
            /\ new_dataframe["alpha_numeric_count"][r].n
                   + new_dataframe["non_alpha_numeric_count"][r].n = Len(dataframe[r])
            /\ new_dataframe["characters_count"][r].n = Len(dataframe[r])

\* Both counters have run on a text of letters, a space and a newline.
C9_Witness ==
    /\ Computed("non_alpha_numeric_count")
    /\ dataframe = <<"a\n ">>
    /\ new_dataframe["alpha_numeric_count"][1] = PyInt(1)
    /\ new_dataframe["non_alpha_numeric_count"][1] = PyInt(2)

====
